---------------------------- MODULE Spec2Model ----------------------------
(***************************************************************************)
(* pyTicker (src/ticker.py): the polling loop of main(), its session       *)
(* variables, the quote fetch with its four failure kinds, the status      *)
(* block with its bells and highlights, the CSV sink, the countdown, the   *)
(* hotkey dispatch and the two signals that can end the process.           *)
(*                                                                         *)
(* Numbers are fixed point.  Prices, exchange rates and curr_equiv carry   *)
(* RND_VAL = 3 decimals and are held in thousandths; value and best_value  *)
(* carry 2 decimals and are held in hundredths; threshold and              *)
(* thresh_change are held in ten-thousandths, the finest unit that         *)
(* value / 100 and threshold * p / 100 need.  round() is round-half-even.  *)
(*                                                                         *)
(* Time is a logical clock of whole seconds of the tick's wall clock: it   *)
(* advances once per countdown, so the "now" of two ticks differ.          *)
(***************************************************************************)
EXTENDS Integers, Sequences, FiniteSets, TLC

\* ------------------------------------------------------------------ bounds
MaxTicks == 3      \* loop iterations explored
MaxKeys  == 2      \* keystrokes typed over a run
MaxQueue == 2      \* keystrokes pending in stdin at once
MaxRefresh == 12   \* intervals and increments F and S are applied to

\* --------------------------------------------------------------- constants
DEF_MULTI         == 1
DEF_THRESH        == 0
DEF_REFRESH       == 20
DEF_THRESH_FACTOR == 5
DEF_REFRESH_INC   == 5
RND_VAL           == 3      \* -d 3

None == -1000000            \* an option left off the command line

\* 10^n
RECURSIVE Pow10(_)
Pow10(n) == IF n = 0 THEN 1 ELSE 10 * Pow10(n - 1)

PriceScale  == Pow10(RND_VAL)   \* stock_price, curr_val, curr_equiv: 1.0
ValueScale  == Pow10(2)         \* value, best_value: 1.0
ThreshScale == Pow10(4)         \* threshold, thresh_change: 1.0
RawScale    == Pow10(4)         \* a quote as the source returns it: 1.0

\* round(n / d) to the nearest integer, ties to the even one (Python 3 round)
Round(n, d) ==
    LET q == n \div d
        r == n % d
    IN  IF 2 * r < d THEN q
        ELSE IF 2 * r > d THEN q + 1
        ELSE IF q % 2 = 0 THEN q ELSE q + 1

\* round(raw, rnd_val) of a fetched quote
RoundQuote(raw) == Round(raw * PriceScale, RawScale)

\* curr_equiv = round(stock_price / curr_val, rnd_val)
CurrEquiv(sp, cv) == Round(sp * PriceScale, cv)

\* round(multiplier * curr_equiv, 2)
ValueOf(m, ce) == Round(m * ce * ValueScale, PriceScale)

\* multiplier * curr_equiv > threshold, the unrounded comparison of the value line
OverThreshold(m, ce, th) == m * ce * (ThreshScale \div PriceScale) > th

\* ------------------------------------------------------- the environment
\* quotes the source can return (ten-thousandths) and the ways it can fail
Symbols   == {"aapl", "tsla", "f", "ko"}
RawPrices(sym) ==
    IF sym = "aapl" THEN {900000, 1000044, 1050000}
    ELSE IF sym = "tsla" THEN {1200000, 1500000}
    ELSE IF sym = "f" THEN {500000, 550000}
    ELSE {600000}
RawRates  == {12500, 16000}
FailKinds == {"ConnectionError", "ReadTimeout", "AssertionError", "JSONDecodeError"}
Keys      == {"Q", "q", "R", "r", "U", "u", "D", "d", "F", "f", "S", "s",
              "T", "t", "B", "b", "x"}
TickKeys  == {"Q", "R", "B"}


\* the command lines explored: parse_cmdline's result, an absent option is None
\* s: -s, b: args.b (FALSE when -b, brief, is given), t: -t, tv: -tv, p: -p, m: -m,
\* c: -c, o: -o given, q: -q, i: -i, r: -r
CmdLine(S, B, T, M, C, O) ==
    [s : S, b : B, t : T, tv : {FALSE}, p : {None}, m : M, c : C, o : O,
     q : {FALSE}, i : {1}, r : {1}]

\* verbose runs with and without a threshold, brief runs, runs with a CSV file,
\* and runs on the two other symbols
CmdLines ==
    CmdLine({"aapl"}, {TRUE}, {None, 100}, {None, 2}, {"none"}, {FALSE})
    \cup CmdLine({"aapl"}, {TRUE}, {-5}, {None}, {"none"}, {FALSE})
    \cup CmdLine({"aapl"}, {TRUE}, {100}, {None}, {"gbp"}, {TRUE})
    \cup CmdLine({"aapl"}, {FALSE}, {None, 100}, {None}, {"none"}, {FALSE})
    \cup CmdLine({"aapl"}, {FALSE}, {None}, {None}, {"gbp"}, {FALSE})
    \cup CmdLine({"aapl"}, BOOLEAN, {None}, {None}, {"none"}, {TRUE})
    \cup CmdLine({"tsla", "f"}, BOOLEAN, {None}, {None}, {"none"}, {FALSE})

\* ------------------------------------------------------------------ state
VARIABLES
    args_b, args_t, args_tv, args_p, args_q,   \* what main() keeps of the command line
    symbol, currency, multiplier, out_file,
    threshold, thresh_change, refresh, refresh_inc,
    bell, multi_bell,                   \* TRUE: the bell string, FALSE: ""
    first_run, quit_flag,
    stock_price, curr_val, curr_equiv, value,
    best_price, last_best_price, low_fx, best_value,
    start_time, peak_val_time, peak_stk_time, low_fx_time, now,
    csv_file, csv,                      \* the file object and the records on disk
    kbd, buf, typed,                    \* keys waiting in the terminal, keys read into
                                        \* sys.stdin's buffer, keys typed so far
    pc, exit_status, exit_by, term,     \* position in main(), how the process ended
    cd_n, cd_i, shown,                  \* print_countdown's range, index, seconds shown
    fetch_err, fetch_at,                \* this tick's fetch failure and where it was raised
    out,                                \* what this tick has printed
    pre,                                \* the session as it stood when the tick began
    hot,                                \* the last hotkey check: its key, the knobs before it
    clock

cfg_vars   == <<args_b, args_t, args_tv, args_p, args_q, symbol, currency, multiplier,
               out_file, refresh_inc>>
knob_vars  == <<threshold, thresh_change, refresh, bell, multi_bell>>
price_vars == <<stock_price, curr_val, curr_equiv, value>>
best_vars  == <<best_price, last_best_price, low_fx, best_value>>
time_vars  == <<start_time, peak_val_time, peak_stk_time, low_fx_time, now>>
csv_vars   == <<csv_file, csv>>
key_vars   == <<kbd, buf, typed>>
end_vars   == <<exit_status, exit_by, term>>
cd_vars    == <<cd_n, cd_i, shown>>
err_vars   == <<fetch_err, fetch_at>>

vars == <<cfg_vars, knob_vars, first_run, quit_flag, price_vars, best_vars, time_vars,
          csv_vars, key_vars, pc, end_vars, cd_vars, err_vars, out, pre, hot, clock>>

\* nothing printed yet in this tick
NoOutput ==
    [header |-> FALSE, price_hl |-> FALSE, price_bell |-> FALSE,
     value_line |-> "none", multi_bell |-> FALSE,
     best_line |-> "none", best_bell |-> FALSE]

\* the bests and their timestamps, as a record
Bests ==
    [best_price |-> best_price, low_fx |-> low_fx, best_value |-> best_value,
     peak_stk_time |-> peak_stk_time, low_fx_time |-> low_fx_time,
     peak_val_time |-> peak_val_time]

\* the session at the top of an iteration
Snapshot ==
    [first_run |-> first_run, stock_price |-> stock_price, curr_val |-> curr_val,
     value |-> value, bests |-> Bests, threshold |-> threshold,
     thresh_change |-> thresh_change, csv |-> csv]

\* no iteration is under way
NoSnapshot ==
    [first_run |-> FALSE, stock_price |-> 0, curr_val |-> 0, value |-> 0,
     bests |-> [best_price |-> 0, low_fx |-> 0, best_value |-> 0,
                peak_stk_time |-> 0, low_fx_time |-> 0, peak_val_time |-> 0],
     threshold |-> 0, thresh_change |-> 0, csv |-> <<>>]

\* no hotkey check since this iteration began
NoKey ==
    [key |-> "unchecked", pending |-> <<>>, threshold |-> 0, refresh |-> 0, bell |-> FALSE,
     multi_bell |-> FALSE, first_run |-> FALSE, quit_flag |-> FALSE]

\* threshold from -t
InitThreshold(a) == IF a.t = None THEN DEF_THRESH * ThreshScale ELSE a.t * ThreshScale

\* thresh_change from -p, -t and -tv
InitThreshChange(a) ==
    LET th == InitThreshold(a)
    IN  IF a.p = None
        THEN IF th = 0 /\ ~a.tv THEN 100 * ThreshScale
             ELSE (th * DEF_THRESH_FACTOR) \div 100
        ELSE IF th = 0 THEN a.p * 100 * ThreshScale
             ELSE (th * a.p) \div 100

\* main() up to the loop, for the command line a
InitWith(a) ==
    /\ args_b = a.b
    /\ args_t = a.t
    /\ args_tv = (a.tv /\ a.t = None)
    /\ args_p = a.p
    /\ args_q = a.q
    /\ symbol = a.s
    /\ currency = IF a.c = "none" THEN "usd" ELSE a.c
    /\ multiplier = IF a.m = None THEN DEF_MULTI ELSE a.m
    /\ out_file = a.o
    /\ threshold = InitThreshold(a)
    /\ thresh_change = InitThreshChange(a)
    /\ refresh = IF a.i = None THEN DEF_REFRESH ELSE a.i
    /\ refresh_inc = IF a.r = None THEN DEF_REFRESH_INC ELSE a.r
    /\ bell = ~a.q
    /\ multi_bell = ~a.q
    /\ first_run = TRUE
    /\ quit_flag = FALSE
    /\ stock_price = 0 /\ curr_val = 0 /\ curr_equiv = 0 /\ value = 0
    /\ best_price = 0 /\ last_best_price = 0 /\ low_fx = 0 /\ best_value = 0
    /\ start_time = 0 /\ peak_val_time = 0 /\ peak_stk_time = 0 /\ low_fx_time = 0
    /\ now = 0
    /\ csv_file = "none" /\ csv = <<>>
    /\ kbd = <<>> /\ buf = <<>> /\ typed = 0
    /\ pc = "top" /\ exit_status = None /\ exit_by = "running" /\ term = "raw"
    /\ cd_n = 0 /\ cd_i = 0 /\ shown = 0
    /\ fetch_err = "none" /\ fetch_at = "none"
    /\ out = NoOutput
    /\ pre = NoSnapshot
    /\ hot = NoKey
    /\ clock = 0

Init == \E a \in CmdLines : InitWith(a)


\* --------------------------------------------------------- leaving main()
\* The process ends with the given status.  restore: the atexit handler
\* set_normal_term runs (sys.exit and an uncaught exception run it, a kill does
\* not), and its TCSAFLUSH discards the keys waiting in the terminal.  The memory
\* of the process is released: what stays is the terminal, the CSV file on disk,
\* and the failure that ended the run.
Exit(status, by, restore, kind, at) ==
    /\ pc' = "exited"
    /\ exit_status' = status
    /\ exit_by' = by
    /\ term' = IF restore THEN "normal" ELSE term
    /\ fetch_err' = kind
    /\ fetch_at' = at
    /\ threshold' = 0 /\ thresh_change' = 0 /\ refresh' = 0
    /\ bell' = FALSE /\ multi_bell' = FALSE
    /\ first_run' = FALSE /\ quit_flag' = FALSE
    /\ stock_price' = 0 /\ curr_val' = 0 /\ curr_equiv' = 0 /\ value' = 0
    /\ best_price' = 0 /\ last_best_price' = 0 /\ low_fx' = 0 /\ best_value' = 0
    /\ start_time' = 0 /\ peak_val_time' = 0 /\ peak_stk_time' = 0
    /\ low_fx_time' = 0 /\ now' = 0
    /\ csv_file' = "none"
    /\ cd_n' = 0 /\ cd_i' = 0 /\ shown' = 0
    /\ out' = NoOutput
    /\ pre' = NoSnapshot
    /\ hot' = NoKey
    /\ clock' = 0
    /\ kbd' = IF restore THEN <<>> ELSE kbd
    /\ buf' = <<>>
    /\ UNCHANGED <<cfg_vars, csv, typed>>

\* the status the process ends with: sys.exit(0) after the loop, sys.exit(3) in
\* the except clauses, sys.exit(1) in signal_handler, 1 for an uncaught exception,
\* and 128 + 15 as the shell reports a process killed by SIGTERM
StatusOf_M(by) ==
    IF by \in {"quit", "SIGINT"} THEN 0 ELSE IF by = "fetch" THEN 3
    ELSE IF by = "error" THEN 1 ELSE 128 + 15

StatusOf(by) ==
    IF by = "quit" THEN 0 ELSE IF by = "fetch" THEN 3
    ELSE IF by \in {"SIGINT", "error"} THEN 1 ELSE 128 + 15

\* ---------------------------------------------------------- top of loop
\* the loop condition, "while not quit_flag"
LoopGuard_M(q) == TRUE

LoopGuard(q) == ~q

\* while not quit_flag: the loop is left, normal termination activities
LoopExit ==
    /\ pc = "top"
    /\ ~LoopGuard(quit_flag)
    /\ Exit(StatusOf("quit"), "quit", TRUE, "none", "none")

\* "Print startup / re-init header": if first_run
HeaderShown_M(first) == TRUE

HeaderShown(first) == first

\* while not quit_flag: an iteration begins, the header is printed on first_run
LoopEnter ==
    /\ pc = "top"
    /\ LoopGuard(quit_flag)
    /\ clock < MaxTicks
    /\ out' = [NoOutput EXCEPT !.header = HeaderShown(first_run)]
    /\ pre' = Snapshot
    /\ hot' = NoKey
    /\ pc' = "fetch"
    /\ UNCHANGED <<cfg_vars, knob_vars, first_run, quit_flag, price_vars, best_vars,
                   time_vars, csv_vars, key_vars, end_vars, cd_vars, err_vars, clock>>

\* ------------------------------------------------------------- the fetch
\* the price arrives: stock_price, and on first_run the best prices
PriceArrives(p) ==
    /\ stock_price' = RoundQuote(p)
    /\ IF first_run
       THEN last_best_price' = RoundQuote(p) /\ best_price' = RoundQuote(p)
       ELSE UNCHANGED <<last_best_price, best_price>>

\* the try block runs to its end: both quotes arrive, the CSV file is opened
FetchOk ==
    /\ pc = "fetch"
    /\ \E p \in RawPrices(symbol), f \in RawRates :
          /\ PriceArrives(p)
          /\ curr_val' = IF currency = "usd" THEN 1 * PriceScale ELSE RoundQuote(f)
    /\ csv_file' = IF out_file THEN "open" ELSE csv_file
    /\ pc' = "update"
    /\ UNCHANGED <<cfg_vars, knob_vars, first_run, quit_flag, curr_equiv, value, low_fx,
                   best_value, time_vars, csv, key_vars, end_vars, cd_vars, err_vars,
                   out, pre, hot, clock>>

\* a fetch failure is fatal: the except clauses on first_run
Fatal_M(first) == FALSE

Fatal_StartupOnly(first) == first /\ clock = 0

Fatal(first) == first

\* si.get_live_price(symbol) raises: the except clause exits on first_run, and
\* otherwise prints its message and lets the iteration go on
FetchPriceFails ==
    /\ pc = "fetch"
    /\ \E kind \in FailKinds :
          IF Fatal(first_run)
          THEN Exit(StatusOf("fetch"), "fetch", TRUE, kind, "price")
          ELSE /\ fetch_err' = kind
               /\ fetch_at' = "price"
               /\ pc' = "update"
               /\ UNCHANGED <<cfg_vars, knob_vars, first_run, quit_flag, price_vars,
                              best_vars, time_vars, csv_vars, key_vars, end_vars,
                              cd_vars, out, pre, hot, clock>>

\* the price arrives and is stored, then si.get_live_price(currency + "usd=x") raises
FetchRateFails ==
    /\ pc = "fetch"
    /\ currency # "usd"
    /\ \E kind \in FailKinds :
          IF Fatal(first_run)
          THEN Exit(StatusOf("fetch"), "fetch", TRUE, kind, "rate")
          ELSE /\ \E p \in RawPrices(symbol) : PriceArrives(p)
               /\ fetch_err' = kind
               /\ fetch_at' = "rate"
               /\ pc' = "update"
               /\ UNCHANGED <<cfg_vars, knob_vars, first_run, quit_flag, curr_val,
                              curr_equiv, value, low_fx, best_value, time_vars,
                              csv_vars, key_vars, end_vars, cd_vars, out, pre, hot, clock>>

\* ---------------------------------------------------- the session update
NewBestPrice_M(sp, bp) == sp # bp

\* the price is a new best
NewBestPrice(sp, bp) == sp > bp

NewLowFx_M(cv, lf) == cv > lf

\* the rate is a new low
NewLowFx(cv, lf) == cv < lf

LowBase_M(first, cv, lf) == lf

\* the low the rate is compared with: on first_run low_fx = curr_val comes first
LowBase(first, cv, lf) == IF first THEN cv ELSE lf

\* thresh_change when the threshold is taken from the opening value: 1% of it
\* without -p, p% of it with -p
StepFromOpen_M(th, p) ==
    IF p = None THEN (th * DEF_THRESH_FACTOR) \div 100 ELSE (th * p) \div 100

StepFromOpen(th, p) == IF p = None THEN th \div 100 ELSE (th * p) \div 100

\* "Get time and stock prices" and "set new best rates"
Update ==
    /\ pc = "update"
    /\ now' = clock
    /\ curr_equiv' = CurrEquiv(stock_price, curr_val)
    /\ value' = ValueOf(multiplier, curr_equiv')
    /\ IF first_run
       THEN /\ best_value' = value'
            /\ IF args_tv
               THEN /\ threshold' = value' * (ThreshScale \div ValueScale)
                    /\ thresh_change' = StepFromOpen(threshold', args_p)
               ELSE UNCHANGED <<threshold, thresh_change>>
       ELSE UNCHANGED <<best_value, threshold, thresh_change>>
    /\ LET lf == LowBase(first_run, curr_val, low_fx)
       IN  IF NewLowFx(curr_val, lf)
           THEN low_fx' = curr_val /\ low_fx_time' = clock
           ELSE low_fx' = lf /\ UNCHANGED low_fx_time
    /\ IF NewBestPrice(stock_price, best_price)
       THEN /\ last_best_price' = best_price
            /\ best_price' = stock_price
            /\ peak_stk_time' = clock
       ELSE UNCHANGED <<last_best_price, best_price, peak_stk_time>>
    /\ pc' = "render"
    /\ UNCHANGED <<cfg_vars, refresh, bell, multi_bell, first_run, quit_flag, stock_price,
                   curr_val, start_time, peak_val_time, csv_vars, key_vars, end_vars,
                   cd_vars, err_vars, out, pre, hot, clock>>

\* ------------------------------------------------------- the status block
\* the threshold is configured and multiplier * curr_equiv is over it
ThresholdCrossed(th, m, ce) == th # 0 /\ OverThreshold(m, ce, th)

ValueLine_Ties(first, th, m, ce, v, bv) ==
    IF first THEN "first"
    ELSE IF ThresholdCrossed(th, m, ce) THEN "threshold"
    ELSE IF v >= bv THEN "new_high"
    ELSE "plain"

ValueLine_NoFirst(first, th, m, ce, v, bv) ==
    IF ThresholdCrossed(th, m, ce) THEN "threshold"
    ELSE IF first THEN "first"
    ELSE IF v > bv THEN "new_high"
    ELSE "plain"

ValueLine_Edge(first, th, m, ce, v, bv) ==
    IF first THEN "first"
    ELSE IF ThresholdCrossed(th, m, ce)
            /\ ~(pre.value * (ThreshScale \div ValueScale) > th)
         THEN "threshold"
    ELSE IF v > bv THEN "new_high"
    ELSE "plain"

\* how the VALUE line is printed: "first" without delta, "threshold" green with
\* multi_bell, "new_high" reversed, "plain"
ValueLine(first, th, m, ce, v, bv) ==
    IF first THEN "first"
    ELSE IF ThresholdCrossed(th, m, ce) THEN "threshold"
    ELSE IF v > bv THEN "new_high"
    ELSE "plain"

BestLine_Ties(first, v, bv) ==
    IF first THEN "first"
    ELSE IF v >= bv THEN "new"
    ELSE "plain"

BestLine_NoMatch(first, v, bv) ==
    IF first THEN "first"
    ELSE IF v > bv THEN "new"
    ELSE IF v = bv THEN "new"
    ELSE "plain"

\* how the BEST line is printed: "first", "new" reversed with bell, "matched"
\* reversed, "plain"
BestLine(first, v, bv) ==
    IF first THEN "first"
    ELSE IF v > bv THEN "new"
    ELSE IF v = bv THEN "matched"
    ELSE "plain"

\* the price line of brief mode is reversed and rings the bell
PriceAlert_M(b, bp, lbp) == ~b /\ bp >= lbp

PriceAlert(b, bp, lbp) == ~b /\ bp > lbp

\* what an alert line sounds: the bell string that ends it, empty when the sound
\* is off
BellOut_M(alert, b) == alert

BellOut(alert, b) == alert /\ b

\* the start, time, price, rate, VALUE and BEST lines
Render ==
    /\ pc = "render"
    /\ LET pa == PriceAlert(args_b, best_price, last_best_price)
           vl == IF args_b
                 THEN ValueLine(first_run, threshold, multiplier, curr_equiv, value,
                                best_value)
                 ELSE "none"
           bl == IF args_b THEN BestLine(first_run, value, best_value) ELSE "none"
       IN  /\ last_best_price' = IF pa THEN best_price ELSE last_best_price
           /\ best_value' = IF bl \in {"first", "new"} THEN value ELSE best_value
           /\ peak_val_time' = IF bl = "new" THEN now ELSE peak_val_time
           /\ out' = [out EXCEPT !.price_hl = pa,
                                 !.price_bell = BellOut(pa, bell),
                                 !.value_line = vl,
                                 !.multi_bell = BellOut(vl = "threshold", multi_bell),
                                 !.best_line = bl,
                                 !.best_bell = BellOut(bl = "new", bell)]
    /\ pc' = "csv"
    /\ UNCHANGED <<cfg_vars, knob_vars, first_run, quit_flag, price_vars, best_price,
                   low_fx, start_time, peak_stk_time, low_fx_time, now, csv_vars,
                   key_vars, end_vars, cd_vars, err_vars, pre, hot, clock>>

\* ------------------------------------------------------------ the CSV sink
\* write_csv_file: the header and a "Start" record on first_run, else a "Run" record
CsvLines_M(first) == <<"Run">>

CsvLines(first) == IF first THEN <<"Header", "Start">> ELSE <<"Run">>

\* csv_file.write() raises: the file object is not the one opened by this tick's
\* try block but the one write_csv_file closed in the tick before
WriteRaises_M(o, f) == FALSE

WriteRaises(o, f) == o /\ f # "open"

\* "if out_file != '': write_csv_file(...)", then the countdown is entered.  A write
\* to the file object closed by the previous tick raises ValueError, which nothing
\* catches: the interpreter prints the traceback and exits with status 1.
WriteCsv ==
    /\ pc = "csv"
    /\ IF WriteRaises(out_file, csv_file)
       THEN Exit(StatusOf("error"), "error", TRUE, fetch_err, fetch_at)
       ELSE /\ IF out_file
               THEN csv' = csv \o CsvLines(first_run) /\ csv_file' = "closed"
               ELSE UNCHANGED csv_vars
            /\ pc' = "countdown"
            /\ cd_n' = refresh /\ cd_i' = 0 /\ shown' = 0
            /\ UNCHANGED <<cfg_vars, knob_vars, first_run, quit_flag, price_vars,
                           best_vars, time_vars, key_vars, end_vars, err_vars, out, pre,
                           hot, clock>>

\* ------------------------------------------------------------ the countdown
\* the seconds print_countdown shows in pass i of range(refresh)
Remaining_M(n, i) == n - i - 1

Remaining(n, i) == n - i

\* one pass of print_countdown's loop: the remaining seconds are shown, sleep(1)
CountdownStep ==
    /\ pc = "countdown"
    /\ cd_i < cd_n
    /\ shown' = Remaining(cd_n, cd_i)
    /\ cd_i' = cd_i + 1
    /\ UNCHANGED <<cfg_vars, knob_vars, first_run, quit_flag, price_vars, best_vars,
                   time_vars, csv_vars, key_vars, pc, end_vars, cd_n, err_vars, out, pre,
                   hot, clock>>

\* print_countdown returns, the delimiter is printed, first_run = False.  The
\* iteration's printout, failure and snapshot are of no use after it.
CountdownEnd ==
    /\ pc = "countdown"
    /\ cd_i >= cd_n
    /\ first_run' = FALSE
    /\ clock' = clock + 1
    /\ pc' = "hotkey"
    /\ out' = NoOutput
    /\ pre' = NoSnapshot
    /\ fetch_err' = "none" /\ fetch_at' = "none"
    /\ cd_n' = 0 /\ cd_i' = 0 /\ shown' = 0
    /\ UNCHANGED <<cfg_vars, knob_vars, quit_flag, price_vars, best_vars, time_vars,
                   csv_vars, key_vars, end_vars, hot>>

\* -------------------------------------------------------------- the hotkeys
\* U: threshold + thresh_change
ThresholdUp(th, step) == th + step

\* D: clamped at 0.0
ThresholdDown_M(th, step) == th - step

ThresholdDown(th, step) == IF th - step <= 0 THEN 0 ELSE th - step

\* F: refresh - refresh_inc, or refresh_inc when that would be 2 or less
Faster_M(r, inc) == r - inc

Faster(r, inc) == IF r - inc <= 2 THEN inc ELSE r - inc

\* S: refresh + refresh_inc
Slower(r, inc) == r + inc

\* B: the bell strings are set when bell is "", and emptied otherwise
BellAfterB_M(b) == TRUE

BellAfterB(b) == IF ~b THEN TRUE ELSE FALSE

\* kbhit(): select() on the file descriptor of stdin sees the keys waiting in
\* the terminal, not those already in sys.stdin's buffer
KbHit(tty) == tty # <<>>

\* getch(): sys.stdin.read(1) returns the first buffered character; with an empty
\* buffer it first fills the buffer with one read of the terminal, which hands
\* over every key waiting there
Getch(b, tty) == IF b # <<>> THEN Head(b) ELSE Head(tty)

\* sys.stdin's buffer after getch()
BufAfterGetch(b, tty) == IF b # <<>> THEN Tail(b) ELSE Tail(tty)

\* the terminal's input queue after getch()
TtyAfterGetch(b, tty) == IF b # <<>> THEN tty ELSE <<>>

\* the keys typed and not yet returned by getch(), oldest first
Pending == buf \o kbd

\* the key read by this hotkey check ("none": no key was pending), with the queue
\* and the knobs as they stood
KeyRead(key) ==
    [key |-> key, pending |-> Pending, threshold |-> threshold, refresh |-> refresh,
     bell |-> bell, multi_bell |-> multi_bell, first_run |-> first_run,
     quit_flag |-> quit_flag]

\* the branch of the if / elif chain that a key selects
Branch_M(key) ==
    IF key \in {"Q", "q"} THEN "quit"
    ELSE IF key \in {"R", "r"} THEN "reset"
    ELSE IF key \in {"U", "u", "T", "t"} THEN "up"
    ELSE IF key \in {"D", "d"} THEN "down"
    ELSE IF key \in {"F", "f"} THEN "faster"
    ELSE IF key \in {"S", "s"} THEN "slower"
    ELSE IF key \in {"B", "b"} THEN "bell"
    ELSE "pass"

Branch_Upper(key) ==
    IF key = "Q" THEN "quit"
    ELSE IF key = "R" THEN "reset"
    ELSE IF key = "U" THEN "up"
    ELSE IF key = "D" THEN "down"
    ELSE IF key = "F" THEN "faster"
    ELSE IF key = "S" THEN "slower"
    ELSE IF key = "T" THEN "show"
    ELSE IF key = "B" THEN "bell"
    ELSE "pass"

Branch(key) ==
    IF key \in {"Q", "q"} THEN "quit"
    ELSE IF key \in {"R", "r"} THEN "reset"
    ELSE IF key \in {"U", "u"} THEN "up"
    ELSE IF key \in {"D", "d"} THEN "down"
    ELSE IF key \in {"F", "f"} THEN "faster"
    ELSE IF key \in {"S", "s"} THEN "slower"
    ELSE IF key \in {"T", "t"} THEN "show"
    ELSE IF key \in {"B", "b"} THEN "bell"
    ELSE "pass"

\* "Check hotkeys": kbhit() and, when a key is pending, getch() and its branch
Hotkey ==
    /\ pc = "hotkey"
    /\ pc' = "top"
    /\ IF ~KbHit(kbd)
       THEN /\ hot' = KeyRead("none")
            /\ UNCHANGED <<kbd, buf, quit_flag, first_run, time_vars, threshold,
                           refresh, bell, multi_bell>>
       ELSE LET key == Getch(buf, kbd)
                br  == Branch(key)
            IN  /\ hot' = KeyRead(key)
                /\ buf' = BufAfterGetch(buf, kbd)
                /\ kbd' = TtyAfterGetch(buf, kbd)
                /\ quit_flag' = IF br = "quit" THEN TRUE ELSE quit_flag
                /\ IF br = "reset"
                   THEN /\ first_run' = TRUE
                        /\ start_time' = clock
                        /\ peak_val_time' = clock
                        /\ peak_stk_time' = clock
                        /\ low_fx_time' = clock
                        /\ UNCHANGED now
                   ELSE UNCHANGED <<first_run, time_vars>>
                /\ threshold' =
                      IF br = "up" THEN ThresholdUp(threshold, thresh_change)
                      ELSE IF br = "down" THEN ThresholdDown(threshold, thresh_change)
                      ELSE threshold
                /\ refresh' =
                      IF br = "faster" THEN Faster(refresh, refresh_inc)
                      ELSE IF br = "slower" THEN Slower(refresh, refresh_inc)
                      ELSE refresh
                /\ IF br = "bell"
                   THEN bell' = BellAfterB(bell) /\ multi_bell' = BellAfterB(bell)
                   ELSE UNCHANGED <<bell, multi_bell>>
    /\ UNCHANGED <<cfg_vars, thresh_change, price_vars, best_vars, csv_vars, typed,
                   end_vars, cd_vars, err_vars, out, pre, clock>>

\* ---------------------------------------------------------- the environment
\* the user types one of the keys K while main() sleeps in the countdown, where an
\* iteration spends its time: the key waits in the terminal until sys.stdin reads
\* it, and nothing reads the keyboard between the fetch and the hotkey check
KeyPress(K) ==
    /\ pc = "countdown" /\ cd_i < cd_n
    /\ typed < MaxKeys
    /\ Len(kbd) < MaxQueue
    /\ \E k \in K : kbd' = Append(kbd, k)
    /\ typed' = typed + 1
    /\ UNCHANGED <<buf, cfg_vars, knob_vars, first_run, quit_flag, price_vars, best_vars,
                   time_vars, csv_vars, pc, end_vars, cd_vars, err_vars, out, pre, hot, clock>>

\* SIGINT: signal_handler prints and calls sys.exit(1)
SigInt ==
    /\ pc # "exited"
    /\ Exit(StatusOf("SIGINT"), "SIGINT", TRUE, "none", "none")

\* SIGTERM: no handler is installed, the process is killed where it stands and
\* no atexit handler runs
SigTerm ==
    /\ pc # "exited"
    /\ Exit(StatusOf("SIGTERM"), "SIGTERM", FALSE, "none", "none")

\* one step of main() itself
Step ==
    \/ LoopExit
    \/ LoopEnter
    \/ FetchOk
    \/ FetchPriceFails
    \/ FetchRateFails
    \/ Update
    \/ Render
    \/ WriteCsv
    \/ CountdownStep
    \/ CountdownEnd
    \/ Hotkey

Next ==
    \/ Step
    \/ KeyPress(TickKeys)
    \/ SigInt
    \/ SigTerm

Spec == Init /\ [][Next]_vars

\* ------------------------------------------------ the keyboard-driven runs
\* command lines on which every hotkey has something to act on: -t, -q, -i and -r
\* vary, the quotes are those of one symbol
KeyCmdLine(T, C, Q, I, R) ==
    [s : {"ko"}, b : {TRUE}, t : T, tv : {FALSE}, p : {None}, m : {None}, c : C,
     o : {FALSE}, q : Q, i : I, r : R]

\* command lines with -tv: the threshold is taken from the opening value
TvCmdLine(T, P, M) ==
    [s : {"ko"}, b : {TRUE}, t : T, tv : {TRUE}, p : P, m : M, c : {"none"},
     o : {FALSE}, q : {FALSE}, i : {1}, r : {1}]

\* no threshold, with and without -q, -i 3 -r 1; -t 100 and none, -i 1 -r 2;
\* a run in another currency; -tv alone with -m 2, -tv with -p 2, -tv with -t 100
KeyCmdLines ==
    KeyCmdLine({None}, {"none"}, BOOLEAN, {3}, {1})
    \cup KeyCmdLine({None, 100}, {"none"}, {FALSE}, {1}, {2})
    \cup KeyCmdLine({100}, {"gbp"}, {TRUE}, {1}, {1})
    \cup TvCmdLine({None}, {None}, {2})
    \cup TvCmdLine({None}, {2}, {None})
    \cup TvCmdLine({100}, {None}, {None})

InitKeys == \E a \in KeyCmdLines : InitWith(a)

\* one key for each branch of the hotkey dispatch, "x" for its final else
BranchKeys == {"Q", "R", "U", "D", "F", "S", "T", "B", "x"}

\* any of these keys may be typed
NextKeys == Step \/ KeyPress(BranchKeys) \/ SigInt \/ SigTerm

SpecKeys == InitKeys /\ [][NextKeys]_vars


\* ------------------------------------------- the runs with every key form
\* one command line, -s ko -t 100 -c gbp -i 1 -r 1, on which the upper- and the
\* lower-case form of the keys Q, U, D, F, S and B may be typed
CaseCmdLines == KeyCmdLine({100}, {"gbp"}, {FALSE}, {1}, {1})

InitCase == \E a \in CaseCmdLines : InitWith(a)

\* the two forms of the keys that change one setting each
CaseKeys == {"Q", "q", "U", "u", "D", "d", "F", "f", "S", "s", "B", "b"}

NextCase == Step \/ KeyPress(CaseKeys) \/ SigInt \/ SigTerm

SpecCase == InitCase /\ [][NextCase]_vars

\* ------------------------------------------------------------ properties
\* the session update of the iteration under way is done
Updated == pc \in {"render", "csv", "countdown"}

\* the status block of the iteration under way is printed
Rendered == pc \in {"csv", "countdown"}

\* the larger of two numbers
Max(a, b) == IF a >= b THEN a ELSE b

\* C1: while first_run is off (no startup or R reseeding under way), no step of the
\* running process lowers best_price or raises low_fx.
C1_BestsMonotone ==
    [][(~first_run /\ pc' # "exited")
         => (best_price' >= best_price /\ low_fx' <= low_fx)]_vars

\* a tick other than a first one has raised best_price and lowered low_fx
C1_Witness ==
    /\ Rendered /\ ~first_run
    /\ best_price > pre.bests.best_price
    /\ low_fx < pre.bests.low_fx

\* C2: once the update of a tick is done, and from then on until the next fetch
\* (startup tick, tick after a reset, ordinary tick, tick whose fetch failed),
\* best_price >= stock_price and low_fx <= curr_val.
C2_BestsBoundCurrent ==
    (Updated \/ (pc \in {"hotkey", "top", "fetch"} /\ clock >= 1))
        => (best_price >= stock_price /\ low_fx <= curr_val)

\* a tick whose rate fetch failed after a new highest price had arrived
C2_Witness ==
    /\ pc = "countdown" /\ fetch_at = "rate"
    /\ stock_price > pre.bests.best_price
    /\ best_price = stock_price

\* C3: at the end of every tick best_value >= value, and best_value does not
\* decrease within a tick other than a first one, in verbose and in brief mode.
C3_BestValueBoundsValue ==
    Rendered => /\ best_value >= value
                /\ (~first_run => best_value >= pre.bests.best_value)

\* C4: on a first-iteration tick (startup, or first tick after R) whose fetch
\* succeeded, best_price is the price, low_fx the rate and best_value the value
\* computed from them, whatever the bests were before.
C4_FirstTickSeeds ==
    (Updated /\ first_run)
        => /\ best_price = stock_price
           /\ low_fx = curr_val
           /\ value = ValueOf(multiplier, CurrEquiv(stock_price, curr_val))
           /\ best_value = value

\* the first tick after R at 120 discards the old best of 150
C4_Witness ==
    /\ pc = "countdown" /\ first_run
    /\ pre.bests.best_price = 150 * PriceScale
    /\ stock_price = 120 * PriceScale
    /\ best_price = 120 * PriceScale

\* C5: on a non-first tick in verbose mode the VALUE line is threshold-crossed if
\* and only if threshold > 0 and multiplier * curr_equiv (unrounded) > threshold.
C5_ThresholdIffPositive ==
    (Rendered /\ args_b /\ ~first_run)
        => ((out.value_line = "threshold")
              <=> (threshold > 0 /\ OverThreshold(multiplier, curr_equiv, threshold)))

\* C5, for thresholds that are not negative: the statement above holds, the
\* unrounded product decides, and the triple bell goes with it when the sound is on.
C5_ThresholdNonNegative ==
    (Rendered /\ args_b /\ ~first_run /\ threshold >= 0)
        => /\ (out.value_line = "threshold")
                <=> (threshold > 0 /\ OverThreshold(multiplier, curr_equiv, threshold))
           /\ out.multi_bell <=> (out.value_line = "threshold" /\ multi_bell)

\* C6: on a non-first tick that is not threshold-crossed, the tick is a new high
\* if and only if value > best_value as it stood before the tick.
C6_NewHighAnyMode ==
    (Rendered /\ ~first_run /\ out.value_line # "threshold")
        => ((out.value_line = "new_high") <=> (value > pre.bests.best_value))

\* C6 amended: in verbose mode, on a non-first tick that is not threshold-crossed,
\* the VALUE line is a new high, and the BEST line is new, if and only if value >
\* best_value as it stood before the tick.
C6_NewHighVerbose ==
    (Rendered /\ args_b /\ ~first_run /\ out.value_line # "threshold")
        => /\ (out.value_line = "new_high") <=> (value > pre.bests.best_value)
           /\ (out.best_line = "new") <=> (value > pre.bests.best_value)

\* a verbose tick below the threshold whose value beats the best
C6_Witness ==
    /\ Rendered /\ args_b /\ ~first_run
    /\ threshold > 0
    /\ out.value_line = "new_high" /\ out.best_line = "new"
    /\ value > pre.bests.best_value

\* no bell and no alert highlight in this tick's printout
NoAlert ==
    /\ ~out.price_bell /\ ~out.multi_bell /\ ~out.best_bell
    /\ ~out.price_hl
    /\ out.value_line \in {"first", "none"}
    /\ out.best_line \in {"first", "none"}

\* C7: a first-iteration tick raises no alert, whatever the value and the
\* threshold; with multiplier 1 and threshold 100 the tick at 105 that follows a
\* tick at 90 is threshold-crossed and rings the triple bell when the sound is on.
C7_FirstTickSilent ==
    /\ (Rendered /\ first_run) => NoAlert
    /\ (Rendered /\ ~first_run /\ args_b /\ multiplier = 1 /\ currency = "usd"
          /\ threshold = 100 * ThreshScale
          /\ pre.stock_price = 90 * PriceScale /\ stock_price = 105 * PriceScale)
        => (out.value_line = "threshold" /\ (out.multi_bell <=> multi_bell))

\* a first tick after R with the sound on and the value over the threshold
C7_Witness ==
    /\ pc = "countdown" /\ first_run /\ clock >= 1
    /\ args_b /\ bell /\ multi_bell
    /\ ThresholdCrossed(threshold, multiplier, curr_equiv)
    /\ NoAlert

\* C8: a tick rings the triple bell when it is threshold-crossed, else the single
\* bell when it is a new high, else no bell: never both bells in one tick.
C8_OneBellKind ==
    Rendered => ~(out.multi_bell /\ (out.best_bell \/ out.price_bell))

\* C9: a fetch failure on a tick that is not a first iteration never ends the
\* process: a run that ends with a fetch failure on record ended in the fatal
\* first-iteration exit, with or without a CSV file.
C9_FailureNotFatal ==
    (pc = "exited" /\ fetch_err # "none") => exit_by = "fetch"

\* C10: a non-first tick whose price fetch failed leaves best_price, low_fx,
\* best_value and their timestamps as they were before the tick, and a non-first
\* tick whose fetch succeeded has best_price = max(best before the tick, price).
C10_FailedTickKeepsBests ==
    /\ (Updated /\ fetch_at = "price") => Bests = pre.bests
    /\ (Rendered /\ fetch_at = "price")
          => /\ out.best_line \in {"none", "matched", "plain"}
             /\ ~out.best_bell
    /\ (Updated /\ ~first_run /\ fetch_err = "none")
          => best_price = Max(pre.bests.best_price, stock_price)

\* the tick after the baseline at 50 failed and the bests are those of the baseline
C10_Witness ==
    /\ pc = "countdown" /\ fetch_at = "price"
    /\ clock = 1
    /\ stock_price = 50 * PriceScale
    /\ best_price = 50 * PriceScale
    /\ Bests = pre.bests

\* C11: on a non-first tick whose price fetch succeeded and whose exchange-rate
\* fetch failed, stock_price, the bests and their timestamps, and curr_val are
\* what they were before the tick.
C11_RateFailureKeepsSession ==
    (Updated /\ fetch_at = "rate")
        => /\ stock_price = pre.stock_price
           /\ curr_val = pre.curr_val
           /\ Bests = pre.bests

\* C12: a fetch failure on a first iteration ends the process at once, from the
\* fetch itself, with a non-zero status: no update, render, CSV record, countdown
\* or hotkey check of that tick takes place, and nothing runs after the exit.
C12_FirstTickFailureEnds ==
    [][/\ pc # "exited"
       /\ (pc = "fetch" /\ first_run /\ fetch_err' # "none")
             => /\ pc' = "exited"
                /\ exit_by' = "fetch"
                /\ exit_status' # 0
                /\ csv' = csv]_vars

\* the very first tick of a run with a CSV file ended in the fatal exit, on a
\* failure of the exchange-rate fetch: no record was written
C12_Witness ==
    /\ pc = "exited" /\ exit_by = "fetch"
    /\ fetch_at = "rate"
    /\ out_file /\ csv = <<>>
    /\ exit_status = 3

\* a hotkey check has just been made
Checked == pc = "top" /\ hot.key # "unchecked"

\* C13: a hotkey check reads exactly the oldest pending key when a key is pending
\* and nothing otherwise, applies the action of that key only, and leaves the
\* other keys pending in their order: first in first out, one key per iteration.
C13_OneKeyPerIteration ==
    Checked =>
        /\ IF hot.pending = <<>>
           THEN hot.key = "none" /\ Pending = <<>>
           ELSE hot.key = Head(hot.pending) /\ Pending = Tail(hot.pending)
        /\ quit_flag = (hot.quit_flag \/ hot.key \in {"Q", "q"})
        /\ first_run = (hot.first_run \/ hot.key \in {"R", "r"})
        /\ (threshold # hot.threshold => hot.key \in {"U", "u", "D", "d"})
        /\ (refresh # hot.refresh => hot.key \in {"F", "f", "S", "s"})
        /\ (bell # hot.bell => hot.key \in {"B", "b"})

\* what holds of the order: a check that reads a key reads the oldest pending one
\* and leaves the others in order, and a check that reads none leaves all of them
C13_KeysInOrder ==
    Checked =>
        IF hot.key = "none"
        THEN Pending = hot.pending
        ELSE hot.key = Head(hot.pending) /\ Pending = Tail(hot.pending)

\* C14: once a hotkey check has read Q, quit_flag is set and main() is at the loop
\* condition: no fetch, update, render, CSV record or countdown runs with quit_flag
\* set, the next step ends the process, and when main() ends it itself the
\* terminal is restored and the status is 0.
C14_QuitStopsLoop ==
    /\ []((Checked /\ hot.key \in {"Q", "q"}) => quit_flag)
    /\ [](quit_flag => pc = "top")
    /\ [][quit_flag => pc' = "exited"]_vars
    /\ []((pc = "exited" /\ exit_by = "quit") => (term = "normal" /\ exit_status = 0))

\* a run ended by a typed Q: the terminal is restored
C14_Witness ==
    /\ pc = "exited" /\ exit_by = "quit"
    /\ term = "normal"
    /\ typed >= 1

\* C15: however the process ends after raw mode was entered (Q, a fatal first-tick
\* fetch failure, SIGINT or SIGTERM, at any point of the loop), the terminal has
\* been put back in its normal mode.
C15_TerminalRestored ==
    pc = "exited" => term = "normal"

\* C16: the exit status is 0 exactly when the run ended through Q, and it is not
\* 0 when the run ended in the fatal first-tick fetch failure or in the interrupt
\* signal, wherever in the loop those arrive.
C16_StatusZeroIffQuit ==
    pc = "exited"
        => /\ (exit_status = 0) <=> (exit_by = "quit")
           /\ exit_by \in {"fetch", "SIGINT"} => exit_status # 0

\* SIGINT ended a run in which a key had been typed: the status is 1
C16_Witness ==
    /\ pc = "exited" /\ exit_by = "SIGINT"
    /\ exit_status = 1
    /\ typed >= 1

\* C17: in runs that start with threshold >= 0 and thresh_change >= 0, threshold is
\* never negative; U leaves threshold + thresh_change and D leaves
\* max(0, threshold - thresh_change).  From 0 with a step of 100 the keys U, D, D
\* give 100, 0, 0.
C17_ThresholdNeverNegative ==
    /\ threshold >= 0 /\ thresh_change >= 0
    /\ (Checked /\ hot.key \in {"U", "u"})
          => threshold = hot.threshold + thresh_change
    /\ (Checked /\ hot.key \in {"D", "d"})
          => threshold = Max(0, hot.threshold - thresh_change)
    /\ LET step == 100 * ThreshScale
           up   == ThresholdUp(0, step)
           dn   == ThresholdDown(up, step)
       IN  up = step /\ dn = 0 /\ ThresholdDown(dn, step) = 0

\* without -t the step is 100: U had raised the threshold from 0 to 100 and this
\* check read D, which brought it back to 0
C17_Witness ==
    /\ Checked /\ hot.key = "D"
    /\ thresh_change = 100 * ThreshScale
    /\ hot.threshold = 100 * ThreshScale
    /\ threshold = 0
    /\ typed = 2

\* C18: F sets the interval to max(refresh_inc, refresh - refresh_inc), so that an
\* interval that was at least refresh_inc is not below refresh_inc after F or S.
C18_FasterIsMax ==
    /\ (Checked /\ hot.key \in {"F", "f"})
          => refresh = Max(refresh_inc, hot.refresh - refresh_inc)
    /\ (Checked /\ hot.key \in {"F", "f", "S", "s"} /\ hot.refresh >= refresh_inc)
          => refresh >= refresh_inc

\* C19: F never makes the interval larger and S never makes it smaller, whatever
\* interval >= 1 and increment >= 1 the run started with.
C19_FasterNeverSlower ==
    /\ (Checked /\ hot.key \in {"F", "f"}) => refresh <= hot.refresh
    /\ (Checked /\ hot.key \in {"S", "s"}) => refresh >= hot.refresh

\* what holds of S: the interval grows by refresh_inc
C19_SlowerAdds ==
    (Checked /\ hot.key \in {"S", "s"}) => refresh = hot.refresh + refresh_inc

\* C20: each B flips the alert sound, for both bell strings together, no other
\* key touches it, and two B in a row give back the setting they found, whether
\* the run started with the sound on or, with -q, off.
C20_BellToggles ==
    /\ pc # "exited" => multi_bell = bell
    /\ (Checked /\ hot.key \in {"B", "b"})
          => /\ bell = ~hot.bell
             /\ BellAfterB(bell) = hot.bell
    /\ (Checked /\ hot.key \notin {"B", "b"}) => bell = hot.bell
    /\ \A b \in BOOLEAN : BellAfterB(b) = ~b /\ BellAfterB(BellAfterB(b)) = b

\* a run started with the sound on (-i 1 -r 2, no -q): the first B had turned it
\* off and this check read the second B, which turned it on again
C20_Witness ==
    /\ Checked /\ hot.key = "B"
    /\ refresh_inc = 2
    /\ typed = 2 /\ Pending = <<>>
    /\ ~hot.bell
    /\ bell /\ multi_bell

\* C21: R itself leaves threshold, refresh and the alert sound as they were, and
\* the tick that follows an R (a first iteration that is not the start-up tick)
\* leaves threshold and thresh_change as they were when the tick began, in every
\* threshold mode and after earlier U and D.
C21_ResetKeepsSettings ==
    /\ (Checked /\ hot.key \in {"R", "r"})
          => /\ threshold = hot.threshold
             /\ refresh = hot.refresh
             /\ bell = hot.bell /\ multi_bell = hot.multi_bell
    /\ (Updated /\ first_run /\ clock >= 1)
          => /\ threshold = pre.threshold
             /\ thresh_change = pre.thresh_change

\* what holds of R without -tv: the tick after an R changes neither
C21_ResetKeepsFixedThreshold ==
    (Updated /\ first_run /\ clock >= 1 /\ ~args_tv)
        => /\ threshold = pre.threshold
           /\ thresh_change = pre.thresh_change

\* C22: with a CSV file configured, a tick whose fetch succeeded appends exactly
\* one record, "Start" after the header line when the tick is a first iteration
\* and "Run" otherwise; nothing else of the tick writes to the file, and without
\* -o nothing is written.
C22_OneRecordPerTick ==
    /\ (pc = "countdown" /\ out_file /\ fetch_err = "none")
          => csv = pre.csv \o (IF first_run THEN <<"Header", "Start">> ELSE <<"Run">>)
    /\ pc \in {"fetch", "update", "render", "csv"} => csv = pre.csv
    /\ ~out_file => csv = <<>>

\* the start-up tick, an ordinary tick, and the tick after an R have been recorded
C22_Witness ==
    /\ pc = "countdown" /\ out_file
    /\ csv = <<"Header", "Start", "Run", "Header", "Start">>

\* C23: in brief mode the price line is reversed, and rings the single bell when
\* the sound is on, exactly on the ticks that are not a first iteration and whose
\* stock price is above the best price before the tick; the mark last_best_price
\* then equals best_price, so a high rings once; and no VALUE or BEST line, hence
\* no triple bell and no best-value bell, is printed on any tick.
C23_BriefBellOnPriceHigh ==
    (Rendered /\ ~args_b)
        => /\ out.price_hl <=> (~first_run /\ stock_price > pre.bests.best_price)
           /\ out.price_bell <=> (out.price_hl /\ bell)
           /\ last_best_price = best_price
           /\ out.value_line = "none" /\ out.best_line = "none"
           /\ ~out.multi_bell /\ ~out.best_bell

\* a brief tick on a new high with the sound on: the single bell rang, and the
\* value is over a configured threshold without any other alert
C23_Witness ==
    /\ Rendered /\ ~args_b /\ ~first_run
    /\ stock_price > pre.bests.best_price
    /\ out.price_bell
    /\ threshold > 0 /\ OverThreshold(multiplier, curr_equiv, threshold)

\* the keys that have an effect on the session
ActingKeys == {"Q", "q", "R", "r", "U", "u", "D", "d", "F", "f", "S", "s", "B", "b"}

\* C24: a hotkey check that reads T, t or a key without a branch takes the key
\* off the pending keys and leaves threshold, thresh_change, refresh, the alert
\* sound, first_run, quit_flag, the quotes, the bests and the timestamps unchanged.
C24_OtherKeysChangeNothing ==
    [][(pc = "hotkey" /\ pc' = "top" /\ KbHit(kbd) /\ Getch(buf, kbd) \notin ActingKeys)
          => /\ Pending' = Tail(Pending)
             /\ UNCHANGED <<knob_vars, first_run, quit_flag, price_vars, best_vars,
                            time_vars>>]_vars

\* T was read after a threshold had been set: nothing moved and no key is pending
C24_Witness ==
    /\ Checked /\ hot.key = "T"
    /\ hot.threshold > 0 /\ threshold = hot.threshold
    /\ refresh = hot.refresh /\ bell = hot.bell
    /\ ~first_run /\ ~quit_flag
    /\ Pending = <<>>

\* C25: when the fetch of an iteration starts, the hotkey check of that iteration
\* has been made and no key is pending, in the first iteration as in the others.
C25_CheckBeforeFetch ==
    pc = "fetch" => (hot.key # "unchecked" /\ Pending = <<>>)

\* what holds of the order: the check closes the iteration, after its countdown,
\* and nothing of an iteration runs between the check and the loop condition
C25_CheckClosesIteration ==
    /\ pc \in {"fetch", "update", "render", "csv", "countdown", "hotkey"}
          => hot.key = "unchecked"
    /\ Checked => clock >= 1

\* C26: a hotkey check made while Q is the oldest pending key reads it and sets
\* quit_flag, so that with n keys ahead of a Q the run ends after n further checks.
C26_PendingQuitIsRead ==
    (Checked /\ hot.pending # <<>> /\ Head(hot.pending) \in {"Q", "q"}) => quit_flag

\* what holds of Q: once a check has read it the next step of main() ends the run,
\* and no fetch is started after it
C26_QuitReadEndsRun ==
    /\ (Checked /\ hot.key \in {"Q", "q"}) => quit_flag
    /\ quit_flag => pc = "top"

\* C27: a countdown runs over the value refresh had when it started, in exactly
\* that many one-second passes showing refresh, refresh - 1, ..., 1; during it
\* keys may arrive but none is read, so refresh stays what it was and an F or S
\* acts on the countdowns that start after its hotkey check.
C27_CountdownOfRefresh ==
    /\ [](pc = "countdown"
            => /\ cd_n = refresh
               /\ cd_i \in 0..cd_n
               /\ shown = IF cd_i = 0 THEN 0 ELSE cd_n - cd_i + 1)
    /\ [][(pc = "countdown" /\ pc' = "hotkey") => (cd_i = cd_n /\ shown = 1)]_vars
    /\ [][(pc = "countdown" /\ pc' # "exited")
             => /\ buf' = buf
                /\ kbd' = kbd \/ \E k \in Keys : kbd' = Append(kbd, k)
                /\ refresh' = refresh]_vars

\* S had raised the interval from 3 to 4: this countdown has made its 4 passes and
\* shows 1, while an F typed during it waits unread
C27_Witness ==
    /\ pc = "countdown"
    /\ refresh_inc = 1 /\ cd_n = 4 /\ cd_i = 4
    /\ shown = 1
    /\ Pending = <<"F">>

\* an iteration is under way
InTick == pc \in {"fetch", "update", "render", "csv", "countdown"}

\* C28: the header has been printed in an iteration, and already when its fetch
\* starts, exactly when the iteration is a first one; an iteration is a first one
\* exactly when it is the start-up iteration or the last hotkey check read R; and
\* first_run is off again when the iteration ends, so there is one header per
\* start-up or reset.
C28_HeaderOnFirstIteration ==
    /\ InTick => (out.header <=> first_run)
    /\ InTick => (first_run <=> pre.first_run)
    /\ pc = "top" => (first_run <=> (clock = 0 \/ hot.key \in {"R", "r"}))
    /\ pc = "hotkey" => ~first_run

\* the iteration after an R: the header is printed and the fetch has not returned
C28_Witness ==
    /\ pc = "fetch"
    /\ clock >= 1
    /\ first_run /\ out.header

C30_ThresholdFromOpen ==
    /\ args_t # None => ~args_tv
    /\ (Updated /\ clock = 0 /\ args_tv)
          => /\ threshold = ValueOf(multiplier, curr_equiv) * (ThreshScale \div ValueScale)
             /\ value = ValueOf(multiplier, curr_equiv)
             /\ args_p = None => thresh_change * 100 = threshold
             /\ args_p # None => thresh_change * 100 = threshold * args_p
    /\ (Updated /\ clock = 0 /\ args_t # None)
          => threshold = args_t * ThreshScale
    /\ (Updated /\ ~args_tv)
          => (threshold = pre.threshold /\ thresh_change = pre.thresh_change)

\* -tv -p 2 on an opening price of 60: the threshold is 60 and the step 1.2
C30_Witness ==
    /\ Updated /\ clock = 0
    /\ args_tv /\ args_p = 2
    /\ threshold = 60 * ThreshScale
    /\ thresh_change * 10 = 12 * ThreshScale

\* C31: while the alert sound is off (a run started with -q, or B read while it
\* was on) no tick rings the single or the triple bell, whatever its lines are; the
\* highlights of the lines do not depend on the sound; B read while the sound is off
\* turns it on, and a tick with the sound on rings the bells its lines call for.
C31_NoBellWhileSoundOff ==
    /\ (pc # "exited" /\ clock = 0) => (bell = ~args_q)
    /\ pc # "exited" => multi_bell = bell
    /\ (Rendered /\ ~bell)
          => (~out.price_bell /\ ~out.multi_bell /\ ~out.best_bell)
    /\ (Rendered /\ args_b /\ ~first_run)
          => /\ (out.value_line = "threshold")
                   <=> ThresholdCrossed(threshold, multiplier, curr_equiv)
             /\ (out.value_line = "new_high")
                   <=> /\ ~ThresholdCrossed(threshold, multiplier, curr_equiv)
                       /\ value > pre.bests.best_value
             /\ (out.best_line = "new") <=> (value > pre.bests.best_value)
    /\ (Rendered /\ ~args_b)
          => (out.price_hl <=> (~first_run /\ stock_price > pre.bests.best_price))
    /\ (Checked /\ hot.key \in {"B", "b"} /\ ~hot.bell) => (bell /\ multi_bell)
    /\ (Rendered /\ bell)
          => /\ out.multi_bell <=> (out.value_line = "threshold")
             /\ out.best_bell <=> (out.best_line = "new")
             /\ out.price_bell <=> out.price_hl

\* -tv, D had lowered the threshold under the value and B had turned the sound off:
\* the VALUE line of this tick is the threshold one and no bell rang
C31_Witness ==
    /\ Rendered /\ args_b /\ ~first_run
    /\ ~args_q /\ ~bell /\ ~multi_bell
    /\ out.value_line = "threshold"
    /\ ~out.multi_bell /\ ~out.best_bell /\ ~out.price_bell

\* a run started with -q in which B was read after the start-up tick: the tick that
\* follows has a new best value and rings the single bell
C31_SoundBackOn ==
    /\ Rendered /\ args_q /\ bell
    /\ clock = 1 /\ typed = 1 /\ Pending = <<>>
    /\ out.best_line = "new" /\ out.best_bell

\* the records of a CSV file: its lines other than the header line
Records(f) == Len(SelectSeq(f, LAMBDA l : l # "Header"))

\* C32: with a CSV file configured, the file grows only by the write of a tick
\* whose fetch succeeded, and then by one record; a tick whose fetch failed leaves
\* the file as it was; every tick that gets past its write had a successful fetch
\* and appended its record, so that the records in the file are as many as those
\* ticks: one per completed iteration.
C32_FailedTickWritesNothing ==
    /\ [][csv' # csv
            => /\ pc = "csv" /\ pc' = "countdown"
               /\ out_file /\ fetch_err = "none"
               /\ Records(csv') = Records(csv) + 1]_vars
    /\ [][(pc = "csv" /\ fetch_err # "none") => csv' = csv]_vars
    /\ []((pc = "countdown" /\ out_file)
            => (fetch_err = "none" /\ Records(csv) = Records(pre.csv) + 1))
    /\ []((pc # "exited" /\ out_file)
            => Records(csv) = clock + (IF pc = "countdown" THEN 1 ELSE 0))

\* two ticks were recorded and the price fetch of the third failed: the file holds
\* the two records, and the write to the closed file has ended the run
C32_Witness ==
    /\ pc = "exited" /\ exit_by = "error"
    /\ out_file /\ fetch_at = "price"
    /\ csv = <<"Header", "Start", "Run">>
    /\ Records(csv) = 2

\* C33: a fetch failure on a first iteration ends the process with status 3, on the
\* iteration after an R as on the start-up iteration, whatever ticks went before;
\* after the start-up an iteration is a first one exactly when the hotkey check
\* before it read R; the fatal exit is taken on first iterations only, and no run
\* ends in it with another status.
C33_FailureAfterResetIsFatal ==
    /\ [][(pc = "fetch" /\ first_run /\ fetch_err' # "none")
            => /\ pc' = "exited"
               /\ exit_by' = "fetch"
               /\ exit_status' = 3]_vars
    /\ [][(pc = "fetch" /\ pc' = "exited" /\ exit_by' = "fetch")
            => first_run]_vars
    /\ []((pc = "top" /\ clock >= 1) => (first_run <=> hot.key \in {"R", "r"}))
    /\ []((pc = "exited" /\ exit_by = "fetch") => exit_status = 3)

\* a run with a CSV file recorded its start-up tick, R was typed, and the fetch of
\* the tick after the R failed: the run ended with status 3
C33_Witness ==
    /\ pc = "exited" /\ exit_by = "fetch"
    /\ exit_status = 3
    /\ out_file /\ csv = <<"Header", "Start">>
    /\ typed >= 1

\* C34: in verbose mode with the sound on, every tick that is not a first iteration
\* rings the triple bell exactly when threshold # 0 and multiplier * curr_equiv >
\* threshold, whether or not the tick before was over the threshold too and whether
\* or not the fetch failed; on a tick whose price fetch failed curr_equiv comes from
\* the price and the rate of the tick before, and on one whose rate fetch failed
\* from the price just fetched and the rate of the tick before.
C34_ThresholdLevelTriggered ==
    /\ (Rendered /\ args_b /\ ~first_run /\ multi_bell)
          => (out.multi_bell
                <=> (threshold # 0 /\ OverThreshold(multiplier, curr_equiv, threshold)))
    /\ Updated => curr_equiv = CurrEquiv(stock_price, curr_val)
    /\ (Updated /\ fetch_at = "price")
          => (stock_price = pre.stock_price /\ curr_val = pre.curr_val)
    /\ (Updated /\ fetch_at = "rate") => curr_val = pre.curr_val

\* threshold 100: the second tick took the value from 90 to 105 and the price
\* fetch of the third failed; the value is still over the threshold and the triple
\* bell rings again
C34_Witness ==
    /\ Rendered /\ args_b /\ ~first_run
    /\ clock = 2 /\ typed = 0
    /\ fetch_at = "price"
    /\ threshold = 100 * ThreshScale
    /\ pre.value = 105 * ValueScale /\ value = pre.value
    /\ out.value_line = "threshold" /\ out.multi_bell

\* C35: in runs started with an interval >= 1 and an increment >= 1 the interval
\* is >= 1 as long as the process runs, whatever F and S were read; F and S map
\* every interval >= 1 to an interval >= 1 (a fact of F and S alone, evaluated
\* where the run starts); and every countdown runs over an interval >= 1 and has
\* shown its last second, after at least one pass of one second, when it ends, so
\* two fetches are never made back to back.
C35_RefreshAtLeastOne ==
    /\ pc # "exited" => (refresh >= 1 /\ refresh_inc >= 1)
    /\ (pc = "top" /\ clock = 0)
          => \A r \in 1..MaxRefresh, inc \in 1..MaxRefresh :
                Faster(r, inc) >= 1 /\ Slower(r, inc) >= 1
    /\ pc = "countdown" => (cd_n >= 1 /\ cd_n = refresh)
    /\ (pc = "countdown" /\ cd_i >= cd_n) => (cd_i >= 1 /\ shown = 1)

\* -i 1 -r 2: S had made the interval 3 and this check read F, which brought it
\* to the increment, 2; the next countdown will sleep two seconds
C35_Witness ==
    /\ Checked /\ hot.key = "F"
    /\ refresh_inc = 2
    /\ hot.refresh = 3 /\ refresh = 2
    /\ typed = 2

\* what no hotkey but R touches: the step, the quotes, the bests and the timestamps
kept_vars == <<thresh_change, price_vars, best_vars, time_vars>>

\* C36: a hotkey check that reads U or D changes threshold only, one that reads F
\* or S changes refresh only, one that reads B changes the two bell strings only,
\* one that reads Q sets quit_flag only; none of them changes first_run,
\* thresh_change, the quotes, the bests or the timestamps; and the lower-case form
\* of each key does what the upper-case form does.
C36_KeyChangesOwnField ==
    [][(pc = "hotkey" /\ pc' = "top" /\ KbHit(kbd))
          => LET key == Getch(buf, kbd)
             IN  /\ key \in {"U", "u"}
                      => /\ threshold' = threshold + thresh_change
                         /\ UNCHANGED <<refresh, bell, multi_bell, quit_flag, first_run,
                                        kept_vars>>
                 /\ key \in {"D", "d"}
                      => /\ threshold' = Max(0, threshold - thresh_change)
                         /\ UNCHANGED <<refresh, bell, multi_bell, quit_flag, first_run,
                                        kept_vars>>
                 /\ key \in {"F", "f"}
                      => /\ refresh' = Faster(refresh, refresh_inc)
                         /\ UNCHANGED <<threshold, bell, multi_bell, quit_flag, first_run,
                                        kept_vars>>
                 /\ key \in {"S", "s"}
                      => /\ refresh' = refresh + refresh_inc
                         /\ UNCHANGED <<threshold, bell, multi_bell, quit_flag, first_run,
                                        kept_vars>>
                 /\ key \in {"B", "b"}
                      => /\ bell' = ~bell /\ multi_bell' = ~multi_bell
                         /\ UNCHANGED <<threshold, refresh, quit_flag, first_run,
                                        kept_vars>>
                 /\ key \in {"Q", "q"}
                      => /\ quit_flag'
                         /\ UNCHANGED <<threshold, refresh, bell, multi_bell, first_run,
                                        kept_vars>>]_vars

\* -t 100: the step is 5, a first key had raised the threshold to 105 and this
\* check read u, which raised it to 110; the step is still 5
C36_Witness ==
    /\ Checked /\ hot.key = "u"
    /\ hot.threshold = 105 * ThreshScale
    /\ threshold = 110 * ThreshScale
    /\ thresh_change = 5 * ThreshScale
    /\ typed = 2 /\ Pending = <<>>

====
